---- MODULE Spec2Model ----
(***************************************************************************)
(* Model of src/main.py: the media upload and streaming API (FastAPI       *)
(* handlers over an Azure blob container).                                 *)
(*                                                                         *)
(* Text that the code parses (filenames, range headers, media ids, URL     *)
(* path segments, blob names) is a sequence of one-character strings, so   *)
(* that os.path.splitext, str.lower, str.replace, str.split and int() are  *)
(* computed as the code computes them.  Content types are opaque strings.  *)
(*                                                                         *)
(* The blob container is the shared state.  A handler runs in a request    *)
(* slot and is cut at its calls to the container (list_blobs,              *)
(* get_blob_properties, download_blob, upload_blob, delete_blob): the      *)
(* container is shared by every worker and instance of the service, so     *)
(* the calls of two requests interleave.                                   *)
(***************************************************************************)
EXTENDS Integers, Sequences, FiniteSets, TLC

(***************************************************************************)
(* Bounds of the model.                                                    *)
(***************************************************************************)
MaxReqs == 2       \* request slots (requests in flight at once)
MaxIds == 2        \* media ids uuid4 can hand out
MaxLen == 2        \* size of an uploaded file, in bytes
MaxBlob == 10      \* largest stored object the range requests are tried on
MaxOff == 11       \* largest offset a range header names

(***************************************************************************)
(* Text helpers.                                                           *)
(***************************************************************************)
UpperChars == <<"A","B","C","D","E","F","G","H","I","J","K","L","M",
                "N","O","P","Q","R","S","T","U","V","W","X","Y","Z">>
LowerChars == <<"a","b","c","d","e","f","g","h","i","j","k","l","m",
                "n","o","p","q","r","s","t","u","v","w","x","y","z">>
DigitChars == <<"0","1","2","3","4","5","6","7","8","9">>

\* ASCII order of the characters the model uses (blob names sort by it).
Alphabet == <<" ", "+", "-", ".", "/">> \o DigitChars \o <<"=">> \o UpperChars \o LowerChars

Rank(c) == CHOOSE i \in 1..Len(Alphabet) : Alphabet[i] = c

\* str.lower on one character
LowerChar(c) ==
  IF \E i \in 1..26 : UpperChars[i] = c
  THEN LowerChars[CHOOSE i \in 1..26 : UpperChars[i] = c]
  ELSE c

\* str.lower
Lower(s) == [i \in 1..Len(s) |-> LowerChar(s[i])]

\* str.rfind of a one-character needle, as a 1-based position, 0 when absent
RFind(s, c) ==
  IF \E i \in 1..Len(s) : s[i] = c
  THEN CHOOSE i \in 1..Len(s) : s[i] = c /\ \A j \in (i+1)..Len(s) : s[j] # c
  ELSE 0

\* lexicographic order of two texts
RECURSIVE LexLess(_, _)
LexLess(a, b) ==
  IF b = <<>> THEN FALSE
  ELSE IF a = <<>> THEN TRUE
  ELSE IF Head(a) # Head(b) THEN Rank(Head(a)) < Rank(Head(b))
  ELSE LexLess(Tail(a), Tail(b))

\* s[from..] as a sequence (Python s[from-1:])
Suffix(s, from) == SubSeq(s, from, Len(s))

IsPrefix(p, s) == Len(p) <= Len(s) /\ SubSeq(s, 1, Len(p)) = p

(***************************************************************************)
(* Media classifier.                                                       *)
(***************************************************************************)
\* os.path.splitext(filename)[1]
SplitExt(p) ==
  LET sepIndex == RFind(p, "/")
      dotIndex == RFind(p, ".")
  IN  IF dotIndex > sepIndex
         /\ \E k \in (sepIndex + 1)..(dotIndex - 1) : p[k] # "."
      THEN Suffix(p, dotIndex)
      ELSE <<>>

MediaTypes == <<"video", "audio", "image">>

ALLOWED_EXTENSIONS ==
  [video |-> << <<".","m","p","4">>, <<".","a","v","i">>, <<".","m","o","v">>,
                <<".","w","m","v">>, <<".","f","l","v">>, <<".","w","e","b","m">>,
                <<".","m","k","v">> >>,
   audio |-> << <<".","m","p","3">>, <<".","w","a","v">>, <<".","o","g","g">>,
                <<".","m","4","a">>, <<".","f","l","a","c">> >>,
   image |-> << <<".","j","p","g">>, <<".","j","p","e","g">>, <<".","p","n","g">>,
                <<".","g","i","f">>, <<".","w","e","b","p">>, <<".","b","m","p">> >>]

InList(x, list) == \E i \in 1..Len(list) : list[i] = x

\* Mutant: the extension is compared as written, without lower()
get_media_type_cased(filename) ==
  LET ext == SplitExt(filename)
  IN  IF \E i \in 1..3 : InList(ext, ALLOWED_EXTENSIONS[MediaTypes[i]])
      THEN MediaTypes[CHOOSE i \in 1..3 :
                        /\ InList(ext, ALLOWED_EXTENSIONS[MediaTypes[i]])
                        /\ \A j \in 1..(i-1) : ~InList(ext, ALLOWED_EXTENSIONS[MediaTypes[j]])]
      ELSE "unknown"

get_media_type(filename) ==
  LET ext == Lower(SplitExt(filename))
  IN  IF \E i \in 1..3 : InList(ext, ALLOWED_EXTENSIONS[MediaTypes[i]])
      THEN MediaTypes[CHOOSE i \in 1..3 :
                        /\ InList(ext, ALLOWED_EXTENSIONS[MediaTypes[i]])
                        /\ \A j \in 1..(i-1) : ~InList(ext, ALLOWED_EXTENSIONS[MediaTypes[j]])]
      ELSE "unknown"

\* Mutant: any filename with an extension is let in
is_allowed_any(filename) == SplitExt(filename) # <<>>

is_allowed_file(filename) ==
  LET ext == Lower(SplitExt(filename))
  IN  \E i \in 1..3 : InList(ext, ALLOWED_EXTENSIONS[MediaTypes[i]])

(***************************************************************************)
(* Content type of an upload (upload_media, line 120).                     *)
(***************************************************************************)
NoContentType == "<None>"                 \* file.content_type is None
DefaultContentType == "application/octet-stream"

\* mimetypes.guess_type(filename)[0] for the extensions the model uploads;
\* the extension is looked up as given, then lower-cased
GuessType(filename) ==
  LET ext == Lower(SplitExt(filename))
  IN  IF ext = <<".","m","p","4">> THEN "video/mp4"
      ELSE IF ext = <<".","p","n","g">> THEN "image/png"
      ELSE IF ext = <<".","m","p","3">> THEN "audio/mpeg"
      ELSE IF ext = <<".","t","x","t">> THEN "text/plain"
      ELSE NoContentType

Falsy(ct) == ct = NoContentType \/ ct = ""

\* file.content_type or mimetypes.guess_type(file.filename)[0] or "application/octet-stream"
ResolveContentType(hint, filename) ==
  IF ~Falsy(hint) THEN hint
  ELSE IF ~Falsy(GuessType(filename)) THEN GuessType(filename)
  ELSE DefaultContentType

(***************************************************************************)
(* Range header arithmetic (stream_media, lines 204-212, 229-232).         *)
(***************************************************************************)
\* str.replace(pat, ""): every non-overlapping occurrence, left to right
RECURSIVE RemoveAll(_, _)
RemoveAll(s, pat) ==
  IF s = <<>> THEN <<>>
  ELSE IF IsPrefix(pat, s) THEN RemoveAll(Suffix(s, Len(pat) + 1), pat)
  ELSE <<Head(s)>> \o RemoveAll(Tail(s), pat)

\* str.split(c) for a one-character separator
RECURSIVE Split(_, _)
Split(s, c) ==
  IF \E i \in 1..Len(s) : s[i] = c
  THEN LET i == CHOOSE k \in 1..Len(s) : s[k] = c /\ \A j \in 1..(k-1) : s[j] # c
       IN  <<SubSeq(s, 1, i - 1)>> \o Split(Suffix(s, i + 1), c)
  ELSE <<s>>

IsDigit(c) == \E i \in 1..10 : DigitChars[i] = c
DigitVal(c) == (CHOOSE i \in 1..10 : DigitChars[i] = c) - 1

RECURSIVE StripLeft(_)
StripLeft(s) == IF s # <<>> /\ Head(s) = " " THEN StripLeft(Tail(s)) ELSE s
RECURSIVE StripRight(_)
StripRight(s) ==
  IF s # <<>> /\ s[Len(s)] = " " THEN StripRight(SubSeq(s, 1, Len(s) - 1)) ELSE s

RECURSIVE DigitsVal(_)
DigitsVal(s) == IF s = <<>> THEN 0 ELSE 10 * DigitsVal(SubSeq(s, 1, Len(s) - 1)) + DigitVal(s[Len(s)])

\* int(text): surrounding blanks, an optional sign, decimal digits; anything
\* else raises ValueError (ok = FALSE)
ParseInt(text) ==
  LET t == StripRight(StripLeft(text))
      signed == t # <<>> /\ Head(t) \in {"+", "-"}
      d == IF signed THEN Tail(t) ELSE t
  IN  IF d # <<>> /\ \A i \in 1..Len(d) : IsDigit(d[i])
      THEN [ok |-> TRUE, val |-> IF signed /\ Head(t) = "-" THEN 0 - DigitsVal(d) ELSE DigitsVal(d)]
      ELSE [ok |-> FALSE, val |-> 0]

\* str(n) for an integer
RECURSIVE NatStr(_)
NatStr(n) == IF n < 10 THEN <<DigitChars[n + 1]>> ELSE NatStr(n \div 10) \o <<DigitChars[(n % 10) + 1]>>
IntStr(n) == IF n < 0 THEN <<"-">> \o NatStr(0 - n) ELSE NatStr(n)

BytesEq == <<"b","y","t","e","s","=">>
BytesSp == <<"b","y","t","e","s"," ">>

\* Mutant: an omitted end defaults to file_size, one past the last byte
ParseRangeEndAtSize(range, file_size) ==
  IF ~range.present \/ range.text = <<>>
  THEN [raised |-> FALSE, start |-> 0, end |-> file_size - 1, status_code |-> 200]
  ELSE LET range_match == Split(RemoveAll(range.text, BytesEq), "-")
           s == IF range_match[1] # <<>> THEN ParseInt(range_match[1]) ELSE [ok |-> TRUE, val |-> 0]
           e == IF Len(range_match) >= 2 /\ range_match[2] # <<>> THEN ParseInt(range_match[2])
                ELSE [ok |-> TRUE, val |-> file_size]
       IN  IF ~s.ok \/ Len(range_match) < 2 \/ ~e.ok
           THEN [raised |-> TRUE, start |-> 0, end |-> 0, status_code |-> 500]
           ELSE [raised |-> FALSE, start |-> s.val, end |-> e.val, status_code |-> 206]

\* Lines 200-212: the byte interval and status of a request.  range is
\* [present, text]; the result is raised = TRUE when int() or the index
\* range_match[1] raises.
ParseRange(range, file_size) ==
  IF ~range.present \/ range.text = <<>>
  THEN [raised |-> FALSE, start |-> 0, end |-> file_size - 1, status_code |-> 200]
  ELSE LET range_match == Split(RemoveAll(range.text, BytesEq), "-")
           s == IF range_match[1] # <<>> THEN ParseInt(range_match[1]) ELSE [ok |-> TRUE, val |-> 0]
       IN  IF ~s.ok \/ Len(range_match) < 2
           THEN [raised |-> TRUE, start |-> 0, end |-> 0, status_code |-> 500]
           ELSE LET e == IF range_match[2] # <<>> THEN ParseInt(range_match[2])
                         ELSE [ok |-> TRUE, val |-> file_size - 1]
                IN  IF ~e.ok
                    THEN [raised |-> TRUE, start |-> 0, end |-> 0, status_code |-> 500]
                    ELSE [raised |-> FALSE, start |-> s.val, end |-> e.val, status_code |-> 206]

\* f"bytes {start}-{end}/{file_size}"
ContentRange(start, end, file_size) ==
  BytesSp \o IntStr(start) \o <<"-">> \o IntStr(end) \o <<"/">> \o IntStr(file_size)

\* Mutant: Content-Range is sent with every status
StreamHeadersAlwaysRange(content_type, status_code, start, end, file_size) ==
  [h \in {"Content-Type", "Accept-Ranges", "Content-Disposition", "Cache-Control",
           "Content-Range", "Content-Length"} |->
     CASE h = "Content-Type" -> <<content_type>>
       [] h = "Accept-Ranges" -> <<"bytes">>
       [] h = "Content-Disposition" -> <<"inline">>
       [] h = "Cache-Control" -> <<"no-cache, no-store, must-revalidate">>
       [] h = "Content-Range" -> ContentRange(start, end, file_size)
       [] h = "Content-Length" -> IntStr(end - start + 1)]

\* Lines 217-232: the response headers
StreamHeaders(content_type, status_code, start, end, file_size) ==
  LET base == [h \in {"Content-Type", "Accept-Ranges", "Content-Disposition",
                      "X-Content-Type-Options", "Cache-Control", "Pragma", "Expires"} |->
                 CASE h = "Content-Type" -> <<content_type>>
                   [] h = "Accept-Ranges" -> <<"bytes">>
                   [] h = "Content-Disposition" -> <<"inline">>
                   [] h = "X-Content-Type-Options" -> <<"nosniff">>
                   [] h = "Cache-Control" -> <<"no-cache, no-store, must-revalidate">>
                   [] h = "Pragma" -> <<"no-cache">>
                   [] h = "Expires" -> <<"0">>]
  IN  IF status_code = 206
      THEN [h \in DOMAIN base \cup {"Content-Range", "Content-Length"} |->
              IF h = "Content-Range" THEN ContentRange(start, end, file_size)
              ELSE IF h = "Content-Length" THEN IntStr(end - start + 1)
              ELSE base[h]]
      ELSE [h \in DOMAIN base \cup {"Content-Length"} |->
              IF h = "Content-Length" THEN IntStr(file_size) ELSE base[h]]

(***************************************************************************)
(* The blob container.  store maps a blob name to the blob: its bytes, its *)
(* content settings and its metadata (a function from key to value, empty  *)
(* for a blob written without metadata).                                   *)
(***************************************************************************)
VARIABLES
  store,     \* the container: blob name -> [content, content_type, metadata]
  issued,    \* the media ids uuid4 has handed out
  req,       \* request slot -> the request it runs and where it stands
  deleted,   \* history: the media ids whose blob a delete_blob call removed
  returned   \* history: media id -> the UploadResponse a 200 upload returned

vars == <<store, issued, req, deleted, returned>>

Reqs == 1..MaxReqs

\* Stand-ins for uuid4 strings, all of one length
IdPool == << <<"a","1">>, <<"b","2">>, <<"c","3">>, <<"d","4">>, <<"e","5">> >>
Ids == {IdPool[i] : i \in 1..MaxIds}

NoMeta == [k \in {} |-> <<>>]
Unknown == <<"u","n","k","n","o","w","n">>

\* dict.get(key, default)
MetaGet(md, key, default) == IF key \in DOMAIN md THEN md[key] ELSE default

\* blob.metadata and blob.metadata.get("media_id") == media_id
HasMediaId(md, media_id) ==
  DOMAIN md # {} /\ "media_id" \in DOMAIN md /\ md["media_id"] = media_id

RECURSIVE SortedNames(_)
SortedNames(S) ==
  IF S = {} THEN <<>>
  ELSE LET m == CHOOSE x \in S : \A y \in S \ {x} : LexLess(x, y)
       IN  <<m>> \o SortedNames(S \ {m})

\* container_client.list_blobs(): the blobs in name order, each with its
\* name, metadata and size
ListBlobs(st) ==
  LET names == SortedNames(DOMAIN st)
  IN  [i \in 1..Len(names) |->
         [name |-> names[i], metadata |-> st[names[i]].metadata,
          size |-> Len(st[names[i]].content)]]

\* The first listed blob whose metadata names media_id (the for loops of
\* stream_media, get_media_info and delete_media); 0 when there is none
FindBlob(blobs, media_id) ==
  IF \E i \in 1..Len(blobs) : HasMediaId(blobs[i].metadata, media_id)
  THEN CHOOSE i \in 1..Len(blobs) :
         /\ HasMediaId(blobs[i].metadata, media_id)
         /\ \A j \in 1..(i-1) : ~HasMediaId(blobs[j].metadata, media_id)
  ELSE 0

StreamUrl(media_id) == <<"/","s","t","r","e","a","m","/">> \o media_id

\* datetime.utcnow().isoformat(), as the reading of a clock that moves on
\* from one upload to the next
Now == IntStr(Cardinality(issued))

\* Mutant: upload_time is the clock's reading when the listing is made
MediaEntryNow(blob) ==
  [media_id |-> blob.metadata["media_id"],
   filename |-> MetaGet(blob.metadata, "original_filename", Unknown),
   size |-> blob.size,
   upload_time |-> Now,
   media_type |-> MetaGet(blob.metadata, "media_type", "unknown"),
   stream_url |-> StreamUrl(blob.metadata["media_id"])]

\* list_media, lines 289-306: one entry per listed blob that carries a media_id
MediaEntry(blob) ==
  [media_id |-> blob.metadata["media_id"],
   filename |-> MetaGet(blob.metadata, "original_filename", Unknown),
   size |-> blob.size,
   upload_time |-> MetaGet(blob.metadata, "upload_time", Unknown),
   media_type |-> MetaGet(blob.metadata, "media_type", "unknown"),
   stream_url |-> StreamUrl(blob.metadata["media_id"])]

\* Mutant: the loop stops after the first blob
MediaListFirst(blobs) == IF blobs = <<>> THEN <<>> ELSE <<MediaEntry(Head(blobs))>>

RECURSIVE MediaList(_)
MediaList(blobs) ==
  IF blobs = <<>> THEN <<>>
  ELSE LET blob == Head(blobs)
       IN  (IF DOMAIN blob.metadata # {} /\ "media_id" \in DOMAIN blob.metadata
               /\ blob.metadata["media_id"] # <<>>
            THEN <<MediaEntry(blob)>>
            ELSE <<>>)
           \o MediaList(Tail(blobs))

ListResponse(st) ==
  LET media_list == MediaList(ListBlobs(st))
  IN  [kind |-> "list", total |-> Len(media_list), media |-> media_list]

\* Mutant: the write replaces the container's content
PutBlobReplacing(st, name, blob) == [n \in {name} |-> blob]

\* blob_client.upload_blob(..., overwrite=True)
PutBlob(st, name, blob) ==
  [n \in DOMAIN st \cup {name} |-> IF n = name THEN blob ELSE st[n]]

\* Mutant: the delete empties the container
RemoveBlobAll(st, name) == [n \in {} |-> st[n]]

\* blob_client.delete_blob()
RemoveBlob(st, name) == [n \in DOMAIN st \ {name} |-> st[n]]

\* Mutant: the end of the range is taken as exclusive
ReadBytesExclusiveEnd(content, offset, length) ==
  LET last == IF offset + length - 1 > Len(content) THEN Len(content) ELSE offset + length - 1
  IN  SubSeq(content, offset + 1, last)

\* blob_client.download_blob(offset, length) on an existing blob, for a
\* range that starts inside it: the bytes from offset, at most length of them
ReadBytes(content, offset, length) ==
  LET last == IF offset + length > Len(content) THEN Len(content) ELSE offset + length
  IN  SubSeq(content, offset + 1, last)

(***************************************************************************)
(* Routing: the routes in the order the decorators register them; the      *)
(* first route whose method and path match handles the request.            *)
(***************************************************************************)
SegUpload == <<"u","p","l","o","a","d">>
SegStream == <<"s","t","r","e","a","m">>
SegMedia == <<"m","e","d","i","a">>
SegList == <<"l","i","s","t">>
Param == <<"{}">>                       \* a path parameter, as {media_id}

Routes ==
  << [method |-> "GET", path |-> <<>>, handler |-> "root"],
     [method |-> "POST", path |-> <<SegUpload>>, handler |-> "upload_media"],
     [method |-> "GET", path |-> <<SegStream, Param>>, handler |-> "stream_media"],
     [method |-> "GET", path |-> <<SegMedia, Param>>, handler |-> "get_media_info"],
     [method |-> "GET", path |-> <<SegMedia, SegList>>, handler |-> "list_media"],
     [method |-> "DELETE", path |-> <<SegMedia, Param>>, handler |-> "delete_media"] >>

RouteMatches(route, method, path) ==
  /\ route.method = method
  /\ Len(route.path) = Len(path)
  /\ \A i \in 1..Len(path) :
       IF route.path[i] = Param THEN path[i] # <<>> ELSE route.path[i] = path[i]

Route(method, path) ==
  IF \E i \in 1..Len(Routes) : RouteMatches(Routes[i], method, path)
  THEN Routes[CHOOSE i \in 1..Len(Routes) :
                /\ RouteMatches(Routes[i], method, path)
                /\ \A j \in 1..(i-1) : ~RouteMatches(Routes[j], method, path)].handler
  ELSE "none"

(***************************************************************************)
(* Exception handling: the status a handler answers with when exc is       *)
(* raised inside its try block.  Only stream_media has a clause for        *)
(* ResourceNotFoundError; every handler's "except Exception" also catches  *)
(* the HTTPException(404) raised inside the try block.                     *)
(***************************************************************************)
ExceptStatus(op, exc) ==
  IF op = "stream_media" /\ exc = "ResourceNotFoundError" THEN 404 ELSE 500

(***************************************************************************)
(* Request slots.                                                          *)
(***************************************************************************)
NoFile == [filename |-> <<>>, content_type |-> NoContentType, content |-> <<>>]
NoRange == [present |-> FALSE, text |-> <<>>]
NoItem == [name |-> <<>>, metadata |-> NoMeta, size |-> 0]
NoPrior == [exists |-> FALSE, deleted |-> FALSE, returned |-> FALSE]
NoResp == [kind |-> "none"]
ErrorResp == [kind |-> "error"]

Idle ==
  [pc |-> "idle", op |-> "none", method |-> "", path |-> <<>>, media_id |-> <<>>, file |-> NoFile, range |-> NoRange,
   content_type |-> "", upload_time |-> <<>>, item |-> NoItem, file_size |-> 0,
   start |-> 0, end |-> 0, status_code |-> 0, prior |-> NoPrior,
   status |-> 0, resp |-> NoResp, stale |-> FALSE]

\* The request has been answered: its inputs, status and response stay
Done(q, status, resp) ==
  [q EXCEPT !.pc = "done", !.status = status, !.resp = resp,
            !.item = NoItem, !.file_size = 0, !.start = 0, !.end = 0, !.status_code = 0]

\* The requests after request r, now q, has written to or deleted from the
\* container: a list answer still held was made before that write
AfterWrite(r, q) ==
  [s \in Reqs |->
     IF s = r THEN q
     ELSE IF req[s].pc = "done" /\ req[s].op = "list_media"
          THEN [req[s] EXCEPT !.stale = TRUE]
          ELSE req[s]]

\* What was true of media_id when the request arrived
PriorOf(media_id) ==
  [exists |-> FindBlob(ListBlobs(store), media_id) # 0,
   deleted |-> media_id \in deleted,
   returned |-> media_id \in DOMAIN returned]

(***************************************************************************)
(* Inputs.                                                                 *)
(***************************************************************************)
Payload(n) == [i \in 1..n |-> (i * 37) % 256]
Contents == {Payload(MaxLen)}

FileNames ==
  { <<"c",".","m","p","4">>,          \* clip.mp4
    <<"p",".","t","x","t">>,          \* not in the table
    <<".","m","p","4">> }             \* a dot file: splitext gives no extension

Hints == {NoContentType, "text/plain"}

Files == [filename : FileNames, content_type : Hints, content : Contents]

Text(range) == [present |-> TRUE, text |-> range]

Ranges == {NoRange, Text(<<"b","y","t","e","s","=","x","-">>)}

\* The media_id path parameters clients send
PathIds == Ids \cup {SegList}

(***************************************************************************)
(* upload_media                                                            *)
(***************************************************************************)
\* f"{media_id}{file_extension}", line 116-117
BlobName(media_id, filename) == media_id \o SplitExt(filename)

\* lines 131-136
UploadMetadata(q) ==
  [k \in {"original_filename", "media_id", "upload_time", "media_type"} |->
     CASE k = "original_filename" -> q.file.filename
       [] k = "media_id" -> q.media_id
       [] k = "upload_time" -> q.upload_time
       [] k = "media_type" -> get_media_type(q.file.filename)]

\* The inner upload_blob call, lines 140-149: with content settings
InnerBlob(q) ==
  [content |-> q.file.content, content_type |-> q.content_type, metadata |-> UploadMetadata(q)]

\* The outer upload_blob call, lines 138-152: the same bytes and metadata,
\* overwrite=True, no content_settings (the store's default content type)
OuterBlob(q) ==
  [content |-> q.file.content, content_type |-> DefaultContentType, metadata |-> UploadMetadata(q)]

\* lines 154-161
UploadResponse(q) ==
  [kind |-> "upload", success |-> TRUE, media_id |-> q.media_id,
   filename |-> q.file.filename, size |-> Len(q.file.content),
   content_type |-> q.content_type, stream_url |-> StreamUrl(q.media_id)]

\* uuid.uuid4(): an id never handed out before
FreshIds == Ids \ issued

\* Lines 107-120: validation, identity, content type; the handler then
\* awaits file.read()
upload_media(r) ==
  /\ req[r].pc = "idle"
  /\ Route("POST", <<SegUpload>>) = "upload_media"
  /\ \E file \in Files :
       LET q == [Idle EXCEPT !.op = "upload_media", !.method = "POST",
                                !.path = <<SegUpload>>, !.file = file]
       IN  \/ /\ ~is_allowed_file(file.filename)
              /\ req' = [req EXCEPT ![r] = Done(q, 400, ErrorResp)]
              /\ UNCHANGED issued
           \/ /\ is_allowed_file(file.filename)
              /\ \E id \in FreshIds :
                   /\ issued' = issued \cup {id}
                   /\ req' = [req EXCEPT ![r] =
                        [q EXCEPT !.pc = "put1", !.media_id = id, !.upload_time = Now,
                                  !.content_type = ResolveContentType(file.content_type, file.filename)]]
  /\ UNCHANGED <<store, deleted, returned>>

\* The inner upload_blob call: it writes the blob, or the store fails
UploadInner(r) ==
  /\ req[r].pc = "put1"
  /\ LET q == req[r]
     IN  \/ /\ store' = PutBlob(store, BlobName(q.media_id, q.file.filename), InnerBlob(q))
            /\ req' = AfterWrite(r, [q EXCEPT !.pc = "put2"])
         \/ /\ req' = [req EXCEPT ![r] = Done(q, ExceptStatus("upload_media", "StoreError"), ErrorResp)]
            /\ UNCHANGED store
  /\ UNCHANGED <<issued, deleted, returned>>

\* The outer upload_blob call, whose second positional argument is the
\* inner call's result: it writes the blob again, or raises
UploadOuter(r) ==
  /\ req[r].pc = "put2"
  /\ LET q == req[r]
     IN  \/ /\ store' = PutBlob(store, BlobName(q.media_id, q.file.filename), OuterBlob(q))
            /\ req' = AfterWrite(r, Done(q, 200, UploadResponse(q)))
            /\ returned' = [i \in DOMAIN returned \cup {q.media_id} |->
                              IF i = q.media_id THEN UploadResponse(q) ELSE returned[i]]
         \/ /\ req' = [req EXCEPT ![r] = Done(q, ExceptStatus("upload_media", "StoreError"), ErrorResp)]
            /\ UNCHANGED <<store, returned>>
  /\ UNCHANGED <<issued, deleted>>

(***************************************************************************)
(* stream_media                                                            *)
(***************************************************************************)
\* Lines 182-191: list_blobs and the search for the blob
StreamLookup(r, ranges) ==
  /\ req[r].pc = "idle"
  /\ \E media_id \in Ids, range \in ranges :
       /\ Route("GET", <<SegStream, media_id>>) = "stream_media"
       /\ LET blobs == ListBlobs(store)
              i == FindBlob(blobs, media_id)
              q == [Idle EXCEPT !.op = "stream_media", !.method = "GET",
                                !.path = <<SegStream, media_id>>, !.media_id = media_id,
                                !.range = range, !.prior = PriorOf(media_id)]
          IN  req' = [req EXCEPT ![r] =
                IF i = 0
                THEN Done(q, ExceptStatus("stream_media", "HTTPException"), ErrorResp)
                ELSE [q EXCEPT !.pc = "props", !.item = blobs[i]]]
  /\ UNCHANGED <<store, issued, deleted, returned>>

stream_media(r) == StreamLookup(r, Ranges)

\* Lines 193-212: get_blob_properties, then the range header
StreamProperties(r) ==
  /\ req[r].pc = "props"
  /\ LET q == req[r]
         name == q.item.name
     IN  req' = [req EXCEPT ![r] =
           IF name \notin DOMAIN store
           THEN Done(q, ExceptStatus("stream_media", "ResourceNotFoundError"), ErrorResp)
           ELSE LET file_size == Len(store[name].content)
                    pr == ParseRange(q.range, file_size)
                IN  IF pr.raised
                    THEN Done(q, ExceptStatus("stream_media", "ValueError"), ErrorResp)
                    ELSE [q EXCEPT !.pc = "download", !.file_size = file_size,
                                   !.content_type = store[name].content_type,
                                   !.start = pr.start, !.end = pr.end,
                                   !.status_code = pr.status_code]]
  /\ UNCHANGED <<store, issued, deleted, returned>>

\* Lines 228-240
StreamResponse(q, body) ==
  [kind |-> "stream", status_code |-> q.status_code,
   headers |-> StreamHeaders(q.content_type, q.status_code, q.start, q.end, q.file_size),
   media_type |-> q.content_type, body |-> body,
   start |-> q.start, end |-> q.end, file_size |-> q.file_size]

\* The store can serve download_blob(offset, length): the range starts
\* inside the blob and asks for at least one byte
Satisfiable(content, offset, length) == 0 <= offset /\ offset < Len(content) /\ length >= 1

\* Lines 212-240: download_blob(offset=start, length=end-start+1) and the
\* response.  A range the store cannot serve is answered by the store with
\* an error or with no bytes.
StreamDownload(r) ==
  /\ req[r].pc = "download"
  /\ LET q == req[r]
         name == q.item.name
         content_length == q.end - q.start + 1
     IN  IF name \notin DOMAIN store
         THEN req' = [req EXCEPT ![r] =
                Done(q, ExceptStatus("stream_media", "ResourceNotFoundError"), ErrorResp)]
         ELSE IF Satisfiable(store[name].content, q.start, content_length)
         THEN req' = [req EXCEPT ![r] =
                Done(q, q.status_code,
                     StreamResponse(q, ReadBytes(store[name].content, q.start, content_length)))]
         ELSE \/ req' = [req EXCEPT ![r] =
                   Done(q, ExceptStatus("stream_media", "StoreError"), ErrorResp)]
              \/ req' = [req EXCEPT ![r] = Done(q, q.status_code, StreamResponse(q, <<>>))]
  /\ UNCHANGED <<store, issued, deleted, returned>>

(***************************************************************************)
(* get_media_info                                                          *)
(***************************************************************************)
\* Lines 258-261, 274: list_blobs and the search.  GET /media/<anything>
\* is routed here, /media/list included.
get_media_info(r) ==
  /\ req[r].pc = "idle"
  /\ \E media_id \in PathIds :
       /\ Route("GET", <<SegMedia, media_id>>) = "get_media_info"
       /\ LET blobs == ListBlobs(store)
              i == FindBlob(blobs, media_id)
              q == [Idle EXCEPT !.op = "get_media_info", !.method = "GET",
                                !.path = <<SegMedia, media_id>>, !.media_id = media_id,
                                !.prior = PriorOf(media_id)]
          IN  req' = [req EXCEPT ![r] =
                IF i = 0
                THEN Done(q, ExceptStatus("get_media_info", "HTTPException"), ErrorResp)
                ELSE [q EXCEPT !.pc = "iprops", !.item = blobs[i]]]
  /\ UNCHANGED <<store, issued, deleted, returned>>

\* Lines 265-272
MediaInfo(q, properties) ==
  [kind |-> "info", media_id |-> q.media_id,
   filename |-> MetaGet(q.item.metadata, "original_filename", Unknown),
   content_type |-> properties.content_type,
   size |-> Len(properties.content),
   upload_time |-> MetaGet(q.item.metadata, "upload_time", Unknown),
   media_type |-> MetaGet(q.item.metadata, "media_type", "unknown")]

\* Lines 262-272: get_blob_properties and the record
InfoProperties(r) ==
  /\ req[r].pc = "iprops"
  /\ LET q == req[r]
         name == q.item.name
     IN  req' = [req EXCEPT ![r] =
           IF name \notin DOMAIN store
           THEN Done(q, ExceptStatus("get_media_info", "ResourceNotFoundError"), ErrorResp)
           ELSE Done(q, 200, MediaInfo(q, store[name]))]
  /\ UNCHANGED <<store, issued, deleted, returned>>

(***************************************************************************)
(* list_media.  No route reaches it (see Routes); this is the handler      *)
(* called as list_media().                                                 *)
(***************************************************************************)
\* Mutant: listing the container also empties it
list_media_clearing(r) ==
  /\ req[r].pc = "idle"
  /\ req' = [req EXCEPT ![r] = Done([Idle EXCEPT !.op = "list_media"], 200, ListResponse(store))]
  /\ store' = NoMeta
  /\ UNCHANGED <<issued, deleted, returned>>

list_media(r) ==
  /\ req[r].pc = "idle"
  /\ req' = [req EXCEPT ![r] = Done([Idle EXCEPT !.op = "list_media"], 200, ListResponse(store))]
  /\ UNCHANGED <<store, issued, deleted, returned>>

(***************************************************************************)
(* delete_media                                                            *)
(***************************************************************************)
\* Lines 320-323, 332: list_blobs and the search
delete_media(r) ==
  /\ req[r].pc = "idle"
  /\ \E media_id \in Ids :
       /\ Route("DELETE", <<SegMedia, media_id>>) = "delete_media"
       /\ LET blobs == ListBlobs(store)
              i == FindBlob(blobs, media_id)
              q == [Idle EXCEPT !.op = "delete_media", !.method = "DELETE",
                                !.path = <<SegMedia, media_id>>, !.media_id = media_id,
                                !.prior = PriorOf(media_id)]
          IN  req' = [req EXCEPT ![r] =
                IF i = 0
                THEN Done(q, ExceptStatus("delete_media", "HTTPException"), ErrorResp)
                ELSE [q EXCEPT !.pc = "delete", !.item = blobs[i]]]
  /\ UNCHANGED <<store, issued, deleted, returned>>

DeleteResponse(q) == [kind |-> "delete", success |-> TRUE, message |-> q.media_id]

\* Lines 324-330: delete_blob and the answer
DeleteBlob(r) ==
  /\ req[r].pc = "delete"
  /\ LET q == req[r]
         name == q.item.name
     IN  IF name \notin DOMAIN store
         THEN /\ req' = [req EXCEPT ![r] =
                   Done(q, ExceptStatus("delete_media", "ResourceNotFoundError"), ErrorResp)]
              /\ UNCHANGED <<store, deleted>>
         ELSE /\ store' = RemoveBlob(store, name)
              /\ deleted' = deleted \cup {q.media_id}
              /\ req' = AfterWrite(r, Done(q, 200, DeleteResponse(q)))
  /\ UNCHANGED <<issued, returned>>

\* The client has its answer; the slot is free again
Reply(r) ==
  /\ req[r].pc = "done"
  /\ req' = [req EXCEPT ![r] = Idle]
  /\ UNCHANGED <<store, issued, deleted, returned>>

(***************************************************************************)
(* The service: an empty container, no request in flight.                  *)
(***************************************************************************)
Init ==
  /\ store = NoMeta
  /\ issued = {}
  /\ req = [r \in Reqs |-> Idle]
  /\ deleted = {}
  /\ returned = NoMeta

Next ==
  \E r \in Reqs :
    \/ upload_media(r)
    \/ UploadInner(r)
    \/ UploadOuter(r)
    \/ stream_media(r)
    \/ StreamProperties(r)
    \/ StreamDownload(r)
    \/ get_media_info(r)
    \/ InfoProperties(r)
    \/ list_media(r)
    \/ delete_media(r)
    \/ DeleteBlob(r)
    \/ Reply(r)

Spec == Init /\ [][Next]_vars

(***************************************************************************)
(* The range requests on one stored object: the container holds one blob   *)
(* as a completed upload leaves it, of every size up to MaxBlob, and one   *)
(* client streams it with every range header of AllRanges.                 *)
(***************************************************************************)
\* "bytes=A-B", "bytes=A-" and "bytes=-B" as a client writes them
RangeHeader(a, b) == BytesEq \o NatStr(a) \o <<"-">> \o NatStr(b)
RangeFrom(a) == BytesEq \o NatStr(a) \o <<"-">>
RangeSuffix(b) == BytesEq \o <<"-">> \o NatStr(b)

AllRanges ==
  {NoRange, Text(<<>>)}
  \cup {Text(RangeHeader(a, b)) : a \in 0..MaxOff, b \in 0..MaxOff}
  \cup {Text(RangeFrom(a)) : a \in 0..MaxOff}
  \cup {Text(RangeSuffix(b)) : b \in 0..MaxOff}
  \cup {Text(<<"b","y","t","e","s","=","x","-","1">>),      \* start not a number
        Text(<<"b","y","t","e","s","=","1","-","x">>),      \* end not a number
        Text(<<"b","y","t","e","s","=","1">>),              \* no dash
        Text(<<"b","y","t","e","s","=","-">>),              \* neither bound
        Text(<<"1","-","2">>),                              \* no unit
        Text(<<"b","y","t","e","s","="," ","1","-","+","2"," ">>),
        Text(<<"b","y","t","e","s","=","0","-","1","-","2">>)}

StoredUpload(n) ==
  [Idle EXCEPT !.op = "upload_media", !.media_id = IdPool[1], !.upload_time = IntStr(0),
               !.file = [filename |-> <<"c",".","m","p","4">>, content_type |-> NoContentType,
                         content |-> Payload(n)],
               !.content_type = "video/mp4"]

InitStream ==
  /\ \E n \in 0..MaxBlob, written \in {"inner", "outer"} :
       LET q == StoredUpload(n)
       IN  /\ store = PutBlob(NoMeta, BlobName(q.media_id, q.file.filename),
                              IF written = "inner" THEN InnerBlob(q) ELSE OuterBlob(q))
           /\ returned = IF written = "inner" THEN NoMeta
                         ELSE [i \in {q.media_id} |-> UploadResponse(q)]
  /\ issued = {IdPool[1]}
  /\ req = [r \in Reqs |-> Idle]
  /\ deleted = {}

StreamAny(r) == StreamLookup(r, AllRanges)

NextStream ==
  \/ StreamAny(1)
  \/ StreamProperties(1)
  \/ StreamDownload(1)
  \/ Reply(1)

SpecStream == InitStream /\ [][NextStream]_vars

(***************************************************************************)
(* The classifier on its own: one filename, classified by both functions.  *)
(***************************************************************************)
UpperChar(c) ==
  IF \E i \in 1..26 : LowerChars[i] = c
  THEN UpperChars[CHOOSE i \in 1..26 : LowerChars[i] = c]
  ELSE c

Upper(s) == [i \in 1..Len(s) |-> UpperChar(s[i])]

\* Only the first letter after the dot in upper case
Capital(s) == [i \in 1..Len(s) |-> IF i = 2 THEN UpperChar(s[i]) ELSE s[i]]

\* The extensions of the table, and some that are not in it
ClassifyExts ==
  UNION {{ALLOWED_EXTENSIONS[t][i] : i \in 1..Len(ALLOWED_EXTENSIONS[t])} :
           t \in {"video", "audio", "image"}}
  \cup {<<".","t","x","t">>, <<".","m","p">>, <<".","m","p","4","x">>, <<".">>, <<>>,
        <<"m","p","4">>}

ClassifyStems == {<<"c">>, <<>>, <<"c",".","b">>, <<"d","/","c">>}

ClassifyNames ==
  {stem \o ext : stem \in ClassifyStems,
                 ext \in UNION {{e, Upper(e), Capital(e)} : e \in ClassifyExts}}

InitClassify ==
  /\ store = NoMeta
  /\ issued = {}
  /\ deleted = {}
  /\ returned = NoMeta
  /\ \E filename \in ClassifyNames :
       req = [r \in Reqs |->
                IF r = 1
                THEN [Idle EXCEPT !.pc = "classify", !.op = "classify",
                                  !.file = [NoFile EXCEPT !.filename = filename]]
                ELSE Idle]

\* get_media_type and is_allowed_file applied to the filename
Classify(r) ==
  /\ req[r].pc = "classify"
  /\ req' = [req EXCEPT ![r] =
               Done(req[r], 0, [kind |-> "classify",
                                allowed |-> is_allowed_file(req[r].file.filename),
                                media_type |-> get_media_type(req[r].file.filename)])]
  /\ UNCHANGED <<store, issued, deleted, returned>>

NextClassify == Classify(1)

SpecClassify == InitClassify /\ [][NextClassify]_vars

(***************************************************************************)
(* Properties.                                                             *)
(***************************************************************************)
Answered(r, op) == req[r].pc = "done" /\ req[r].op = op

\* The blobs of the container that carry media metadata
MediaBlobs == {n \in DOMAIN store : "media_id" \in DOMAIN store[n].metadata}

\* The listing entries for media_id
EntriesOf(media, media_id) == {i \in 1..Len(media) : media[i].media_id = media_id}

\* The extension of filename, lower-cased, is one of the table's
InTable(filename) ==
  Lower(SplitExt(filename)) \in
    UNION {{ALLOWED_EXTENSIONS[mt][i] : i \in 1..Len(ALLOWED_EXTENSIONS[mt])} : mt \in {"video", "audio", "image"}}

\* C1: round trip.  An info request that arrives after the upload of its
\* media_id has returned, with no delete of that id, answers 200 with the
\* media_id, filename and content_type the upload returned and the media
\* type of the uploaded filename.
C1_RoundTrip ==
  \A r \in Reqs :
    (Answered(r, "get_media_info") /\ req[r].prior.returned /\ req[r].media_id \notin deleted)
    => /\ req[r].status = 200
       /\ req[r].resp.kind = "info"
       /\ req[r].resp.media_id = returned[req[r].media_id].media_id
       /\ req[r].resp.filename = returned[req[r].media_id].filename
       /\ req[r].resp.content_type = returned[req[r].media_id].content_type
       /\ req[r].resp.media_type = get_media_type(returned[req[r].media_id].filename)

\* The stored object a stream request of SpecStream is about
ObjectOf(media_id) ==
  store[CHOOSE n \in DOMAIN store : HasMediaId(store[n].metadata, media_id)].content

\* C2: range coverage.  On a stored object of N bytes, a request with
\* "bytes=A-B", 0 <= A <= B < N, is answered 206 with the B-A+1 bytes at
\* offsets A..B, Content-Range "bytes A-B/N" and Content-Length B-A+1; a
\* 10-byte object and bytes=2-5 give 4 bytes and "bytes 2-5/10".
C2_RangeCoverage ==
  \A r \in Reqs : \A a \in 0..MaxOff, b \in 0..MaxOff :
    LET object == ObjectOf(req[r].media_id)
        n == Len(object)
    IN  (Answered(r, "stream_media") /\ req[r].prior.exists
         /\ req[r].range = Text(RangeHeader(a, b)) /\ a <= b /\ b < n)
        => /\ req[r].status = 206
           /\ req[r].resp.kind = "stream"
           /\ Len(req[r].resp.body) = b - a + 1
           /\ \A k \in a..b : req[r].resp.body[k - a + 1] = object[k + 1]
           /\ req[r].resp.headers["Content-Range"] =
                BytesSp \o NatStr(a) \o <<"-">> \o NatStr(b) \o <<"/">> \o NatStr(n)
           /\ req[r].resp.headers["Content-Length"] = NatStr(b - a + 1)
           /\ (n = 10 /\ a = 2 /\ b = 5)
              => /\ Len(req[r].resp.body) = 4
                 /\ req[r].resp.headers["Content-Range"] =
                      <<"b","y","t","e","s"," ","2","-","5","/","1","0">>

C2_Witness ==
  \E r \in Reqs :
    /\ Answered(r, "stream_media") /\ req[r].prior.exists
    /\ req[r].range = Text(<<"b","y","t","e","s","=","2","-","5">>)
    /\ Len(ObjectOf(req[r].media_id)) = 10
    /\ req[r].status = 206

\* A range header is malformed for an object of n bytes: a bound that is
\* not a number, start > end, or start >= n
Malformed(range, n) ==
  /\ range.present /\ range.text # <<>>
  /\ LET pr == ParseRange(range, n)
     IN  pr.raised \/ pr.start > pr.end \/ pr.start >= n

\* C3: a malformed range on an existing object is answered with a 4xx
\* status, and the request never gets to its download_blob call.
C3_MalformedRange ==
  \A r \in Reqs :
    (req[r].op = "stream_media" /\ req[r].prior.exists
     /\ Malformed(req[r].range, Len(ObjectOf(req[r].media_id))))
    => /\ req[r].pc # "download"
       /\ req[r].pc = "done" => req[r].status \in 400..499

\* C4: an upload whose extension is not in the table is answered 400 in
\* the step that receives it, and that step leaves the container and the
\* result of list() as they were.
C4_RejectedUpload ==
  [][\A r \in Reqs :
       (req[r].pc = "idle" /\ req'[r].op = "upload_media" /\ ~InTable(req'[r].file.filename))
       => /\ req'[r].pc = "done"
          /\ req'[r].status = 400
          /\ store' = store
          /\ ListResponse(store') = ListResponse(store)]_vars

C4_Witness ==
  \E r \in Reqs :
    /\ Answered(r, "upload_media")
    /\ req[r].file.filename = <<"p",".","t","x","t">>
    /\ req[r].status = 400
    /\ DOMAIN store # {}

\* C5: no lost record.  When two uploads have both returned 200, no other
\* upload has been given an id and neither id has been deleted, both ids
\* resolve and list() has total 2 with one entry for each.
C5_NoLostRecord ==
  \A r1 \in Reqs, r2 \in Reqs :
    (/\ r1 # r2
     /\ Answered(r1, "upload_media") /\ req[r1].status = 200
     /\ Answered(r2, "upload_media") /\ req[r2].status = 200
     /\ issued \subseteq {req[r1].media_id, req[r2].media_id}
     /\ deleted = {})
    => LET listing == ListResponse(store)
       IN  /\ listing.total = 2
           /\ Len(listing.media) = 2
           /\ \A r \in {r1, r2} :
                /\ Cardinality(EntriesOf(listing.media, req[r].media_id)) = 1
                /\ FindBlob(ListBlobs(store), req[r].media_id) # 0

C5_Witness ==
  /\ \A r \in {1, 2} : Answered(r, "upload_media") /\ req[r].status = 200
  /\ deleted = {}
  /\ ListResponse(store).total = 2

\* C6: a delete of a media_id that an earlier delete removed is answered
\* 404.
C6_DeleteNotRepeatable ==
  \A r \in Reqs :
    (Answered(r, "delete_media") /\ req[r].prior.deleted) => req[r].status = 404

\* C7: a stream or info request for a media_id that has no stored object
\* is answered 404.
C7_MissingIs404 ==
  \A r \in Reqs :
    (/\ req[r].pc = "done"
     /\ req[r].op \in {"stream_media", "get_media_info"}
     /\ ~req[r].prior.exists)
    => req[r].status = 404

\* C8: GET /media/list is answered by the listing: 200 with {total, media}
\* and total = the number of entries.
C8_ListRoute ==
  \A r \in Reqs :
    (req[r].pc = "done" /\ req[r].method = "GET" /\ req[r].path = <<SegMedia, SegList>>)
    => /\ req[r].status = 200
       /\ req[r].resp.kind = "list"
       /\ req[r].resp.total = Len(req[r].resp.media)

\* C9: the listing has exactly one entry for each media object of the
\* container, every entry names an object that exists, and no two entries
\* share a media_id.
C9_ListingMatchesStore ==
  LET listing == ListResponse(store)
      media == listing.media
  IN  /\ listing.total = Len(media)
      /\ \A n \in MediaBlobs :
           Cardinality(EntriesOf(media, store[n].metadata["media_id"])) = 1
      /\ \A i \in 1..Len(media) :
           /\ BlobName(media[i].media_id, media[i].filename) \in MediaBlobs
           /\ Len(store[BlobName(media[i].media_id, media[i].filename)].content) = media[i].size
      /\ \A i \in 1..Len(media), j \in 1..Len(media) :
           media[i].media_id = media[j].media_id => i = j

C9_Witness ==
  /\ \A r \in Reqs : req[r].pc = "idle"
  /\ deleted # {}
  /\ Cardinality(DOMAIN returned) = 2
  /\ Cardinality(MediaBlobs) = 1

\* C10: an upload answered 500 leaves no entry in the listing: list() has
\* no entry with the media_id that upload generated.
C10_FailedUploadInvisible ==
  \A r \in Reqs :
    (Answered(r, "upload_media") /\ req[r].status = 500)
    => EntriesOf(ListResponse(store).media, req[r].media_id) = {}

\* A stream request of SpecStream answered with a body
Streamed(r) ==
  Answered(r, "stream_media") /\ req[r].prior.exists /\ req[r].status \in {200, 206}

\* C11: a 200 or 206 stream response on an object of N >= 1 bytes serves an
\* interval with 0 <= start <= end <= N-1, its Content-Length is
\* end-start+1, and that is the number of bytes of the body, also when the
\* header asks for an end >= N.
C11_IntervalInsideObject ==
  \A r \in Reqs :
    LET n == Len(ObjectOf(req[r].media_id))
        resp == req[r].resp
    IN  (Streamed(r) /\ n >= 1 /\ req[r].range.present /\ resp.start < n)
        => /\ 0 <= resp.start /\ resp.start <= resp.end /\ resp.end <= n - 1
           /\ resp.headers["Content-Length"] = IntStr(resp.end - resp.start + 1)
           /\ Len(resp.body) = resp.end - resp.start + 1

\* C12: with no Range header, a stream of an object of N >= 0 bytes is
\* answered 200 with the whole object, Content-Length N and no
\* Content-Range.
C12_FullContent ==
  \A r \in Reqs :
    LET object == ObjectOf(req[r].media_id)
    IN  (Answered(r, "stream_media") /\ req[r].prior.exists /\ ~req[r].range.present)
        => /\ req[r].status = 200
           /\ req[r].resp.kind = "stream"
           /\ req[r].resp.body = object
           /\ req[r].resp.headers["Content-Length"] = NatStr(Len(object))
           /\ "Content-Range" \notin DOMAIN req[r].resp.headers

\* C13: open-ended ranges.  On an object of N bytes, "bytes=A-" with
\* 0 <= A < N is answered 206 with the N-A bytes at offsets A..N-1 and
\* Content-Range "bytes A-(N-1)/N" (N bytes for "bytes=0-"); "bytes=-B"
\* with B < N takes start as 0: 206 with the B+1 bytes at offsets 0..B.
C13_OpenEndedRanges ==
  \A r \in Reqs : \A a \in 0..MaxOff :
    LET object == ObjectOf(req[r].media_id)
        n == Len(object)
        resp == req[r].resp
    IN  /\ (Answered(r, "stream_media") /\ req[r].prior.exists
            /\ req[r].range = Text(RangeFrom(a)) /\ a < n)
           => /\ req[r].status = 206
              /\ resp.kind = "stream"
              /\ resp.body = SubSeq(object, a + 1, n)
              /\ Len(resp.body) = n - a
              /\ resp.headers["Content-Range"] =
                   BytesSp \o NatStr(a) \o <<"-">> \o NatStr(n - 1) \o <<"/">> \o NatStr(n)
              /\ resp.headers["Content-Length"] = NatStr(n - a)
        /\ (Answered(r, "stream_media") /\ req[r].prior.exists
            /\ req[r].range = Text(RangeSuffix(a)) /\ a < n)
           => /\ req[r].status = 206
              /\ resp.kind = "stream"
              /\ resp.body = SubSeq(object, 1, a + 1)
              /\ resp.headers["Content-Range"] =
                   BytesSp \o <<"0", "-">> \o NatStr(a) \o <<"/">> \o NatStr(n)

C13_Witness ==
  \E r \in Reqs :
    /\ Streamed(r)
    /\ req[r].range = Text(<<"b","y","t","e","s","=","3","-">>)
    /\ Len(ObjectOf(req[r].media_id)) = 10
    /\ Len(req[r].resp.body) = 7

\* C17: every 200 or 206 stream response carries Accept-Ranges: bytes,
\* Content-Disposition: inline, a no-cache/no-store Cache-Control and the
\* stored object's content type; Content-Range is present exactly when the
\* status is 206.
C17_StreamHeaders ==
  \A r \in Reqs :
    Streamed(r)
    => LET headers == req[r].resp.headers
           blob == store[CHOOSE n \in DOMAIN store : HasMediaId(store[n].metadata, req[r].media_id)]
       IN  /\ {"Accept-Ranges", "Content-Disposition", "Cache-Control", "Content-Type"}
                \subseteq DOMAIN headers
           /\ headers["Accept-Ranges"] = <<"bytes">>
           /\ headers["Content-Disposition"] = <<"inline">>
           /\ headers["Cache-Control"] = <<"no-cache, no-store, must-revalidate">>
           /\ headers["Content-Type"] = <<blob.content_type>>
           /\ ("Content-Range" \in DOMAIN headers) <=> (req[r].status = 206)

C17_Witness ==
  /\ \E r \in Reqs : Streamed(r) /\ req[r].status = 200
                     /\ req[r].resp.headers["Content-Type"] = <<DefaultContentType>>
                     /\ "Content-Range" \notin DOMAIN req[r].resp.headers

\* The filename with the letters of its extension in another case
CaseVariants(filename) ==
  LET ext == SplitExt(filename)
      stem == SubSeq(filename, 1, Len(filename) - Len(ext))
  IN  {stem \o Upper(ext), stem \o Lower(ext), stem \o Capital(ext)}

\* C16: the two classifiers agree: is_allowed_file(filename) holds exactly
\* when get_media_type(filename) is not "unknown", and neither result
\* changes when the case of the extension's letters changes.
C16_ClassifiersAgree ==
  \A r \in Reqs :
    Answered(r, "classify")
    => /\ req[r].resp.allowed <=> (req[r].resp.media_type # "unknown")
       /\ \A g \in CaseVariants(req[r].file.filename) :
            /\ is_allowed_file(g) = req[r].resp.allowed
            /\ get_media_type(g) = req[r].resp.media_type

C16_Witness ==
  \E r \in Reqs :
    /\ Answered(r, "classify")
    /\ req[r].file.filename = <<"c", ".", "M", "p", "4">>
    /\ req[r].resp.allowed
    /\ req[r].resp.media_type = "video"

\* Request r takes a step
Acts(r) == req[r].pc # req'[r].pc

\* The handler request r is in, before or after the step
OpOf(r) == IF req[r].pc = "idle" THEN req'[r].op ELSE req[r].op

\* The entries of a listing, as a set
EntrySet(media) == {media[i] : i \in 1..Len(media)}

\* C14: a delete that returns success removes exactly the named record:
\* afterwards no stored object and no listing entry has its media_id, and
\* every other stored object and listing entry is as before; and a stored
\* object disappears only in a successful delete of its own media_id.
C14_DeleteFrame ==
  [][/\ \A r \in Reqs :
          (req[r].pc = "delete" /\ req'[r].pc = "done" /\ req'[r].status = 200)
          => LET media_id == req[r].media_id
             IN  /\ FindBlob(ListBlobs(store'), media_id) = 0
                 /\ EntriesOf(ListResponse(store').media, media_id) = {}
                 /\ DOMAIN store' \subseteq DOMAIN store
                 /\ \A n \in DOMAIN store :
                      ~HasMediaId(store[n].metadata, media_id)
                      => n \in DOMAIN store' /\ store'[n] = store[n]
                 /\ EntrySet(ListResponse(store').media)
                      = {e \in EntrySet(ListResponse(store).media) : e.media_id # media_id}
     /\ \A n \in DOMAIN store \ DOMAIN store' :
          \E r \in Reqs :
            /\ req[r].pc = "delete" /\ req[r].op = "delete_media"
            /\ req'[r].pc = "done" /\ req'[r].status = 200
            /\ HasMediaId(store[n].metadata, req[r].media_id)]_vars

C14_Witness ==
  \E r \in Reqs :
    /\ Answered(r, "delete_media") /\ req[r].status = 200
    /\ FindBlob(ListBlobs(store), req[r].media_id) = 0
    /\ \E n \in DOMAIN store : ~HasMediaId(store[n].metadata, req[r].media_id)

\* C18: a stream or info request that found its object and races with a
\* delete of the same media_id ends with a success or with 404, never with
\* 500 because the object went away between the lookup and the next store
\* call.
C18_RaceWithDelete ==
  \A r \in Reqs :
    (/\ req[r].pc = "done"
     /\ req[r].op \in {"stream_media", "get_media_info"}
     /\ req[r].prior.exists
     /\ ~req[r].range.present)
    => req[r].status \in {200, 206, 404}

\* C19: stream, info and list only read: no step of one of these handlers,
\* whatever its outcome or Range header, changes a stored object, its
\* metadata or the listing.
C19_ReadOnly ==
  [][\A r \in Reqs :
       (Acts(r) /\ OpOf(r) \in {"stream_media", "get_media_info", "list_media"})
       => /\ store' = store
          /\ ListResponse(store') = ListResponse(store)]_vars

C19_Witness ==
  /\ DOMAIN store # {}
  /\ \E r \in Reqs : Answered(r, "stream_media") /\ req[r].status = 500
  /\ \E r \in Reqs : Answered(r, "list_media") /\ req[r].resp.total >= 1

\* A list answer with no write to or delete from the container since
Current(r) == Answered(r, "list_media") /\ ~req[r].stale

====
